---- MODULE Spec2Model ----
(***************************************************************************)
(* Reversi rule engine: the grid (Board), the cell views (Position), the   *)
(* directional walkers, the capture resolution of Position::place and the  *)
(* turn sequencer (Game).                                                  *)
(***************************************************************************)
EXTENDS Integers, Sequences, FiniteSets, TLC

\* ------------------------------------------------------------------ bounds
\* Board sizes handed to Game::new / Board::new are drawn from 0..MaxSize.
MaxSize == 8
\* Rows and columns handed to the operations are drawn from 0..MaxCoord.
MaxCoord == 3
\* Number of operations performed on one game after its construction.
MaxOps == 2
\* The longer runs: DeepOps placements and flips on a fresh board of DeepSize.
DeepSize == 6
DeepOps == 3
\* The calls of the codecs and of the walkers: rows 0..MaxRow for the row
\* letters, coordinates (0..MaxTextRow, 0..MaxTextCol) for the coordinate text,
\* steps 1..MaxStep and grids of the sizes 0..MaxWalkSize for the walkers.
MaxRow == 730
MaxTextRow == 27
MaxTextCol == 50
MaxStep == 5
MaxWalkSize == 4
\* The views held of one board: a board of size ViewSize, ViewOps operations
\* that get, clone, walk (1..ViewSteps cells), place and flip views.
ViewSize == 4
ViewOps == 4
ViewSteps == 2

\* The largest board that is filled up cell by cell.
FillSize == 3

VARIABLES
    phase,   \* "start" before Game::new, "playing" afterwards, "panicked" after a panic;
             \* "called" and "returned" around a call made without a game
    size,    \* Board.size
    data,    \* Board.data: the shared Vec<Vec<char>>, data[row][col]
    turn,    \* Game.turn
    moves,   \* Game.moves
    budget,  \* operations the run may still perform
    last,    \* the last operation: its arguments, its result, the grid before it
    store,   \* the matrices behind the MatrixPointers: store[id] is the grid of matrix id
    views    \* the Positions the caller holds, in the order it got them

vars == <<phase, size, data, turn, moves, budget, last, store, views>>

\* ------------------------------------------------------------------ pieces
Pieces == {"Blue", "Red"}

\* impl Not for Piece
NotPiece(p) == IF p = "Blue" THEN "Red" ELSE "Blue"

\* From<Piece> for char writing small letters.
PieceToChar_SmallLetters(p) == IF p = "Blue" THEN "b" ELSE "r"

\* impl From<Piece> for char
PieceToChar(p) == IF p = "Blue" THEN "B" ELSE "R"

\* impl TryInto<char> for Wrap<Option<Piece>>
WrapToChar(w) ==
    CASE w = "None" -> " "
      [] w = "Blue" -> "B"
      [] w = "Red"  -> "R"

\* impl TryFrom<char> for Wrap<Option<Piece>>
CharToWrap(ch) ==
    CASE ch = "B" -> "Blue"
      [] ch = "R" -> "Red"
      [] ch = " " -> "None"
      [] OTHER    -> "ParseError"

\* ------------------------------------------------------------- coordinates
Coord(r, c) == [row |-> r, col |-> c]

\* enum Direction, in declaration order (the order all::<Dir>() yields)
Dirs == <<"Up", "UpRight", "Right", "DownRight", "Down", "DownLeft", "Left", "UpLeft">>

DirSet == {Dirs[i] : i \in 1..Len(Dirs)}

\* Option: None is <<>>, Some(x) is <<x>>
None == <<>>
Some(x) == <<x>>
IsSome(o) == o # <<>>
Unwrap(o) == o[1]

\* CoordsWalk with UpLeft leaving the column alone (the arm of Up pasted).
CoordsWalk_UpLeftKeepsCol(co, dir, ix) ==
    CASE dir \in {"Up", "UpLeft"} ->
           IF co.row >= ix /\ (dir = "Up" \/ co.col >= ix)
           THEN Some(Coord(co.row - ix, co.col)) ELSE None
      [] dir = "UpRight" ->
           IF co.row >= ix THEN Some(Coord(co.row - ix, co.col + ix)) ELSE None
      [] dir = "Right" -> Some(Coord(co.row, co.col + ix))
      [] dir = "DownRight" -> Some(Coord(co.row + ix, co.col + ix))
      [] dir = "Down" -> Some(Coord(co.row + ix, co.col))
      [] dir = "DownLeft" ->
           IF co.col >= ix THEN Some(Coord(co.row + ix, co.col - ix)) ELSE None
      [] dir = "Left" ->
           IF co.col >= ix THEN Some(Coord(co.row, co.col - ix)) ELSE None

\* CoordsWalk with DownLeft guarded by the row, as the arms above it are.
CoordsWalk_DownLeftGuardsRow(co, dir, ix) ==
    CASE dir \in {"Up", "UpRight", "DownLeft"} ->
           IF co.row >= ix
           THEN Some(Coord(IF dir = "DownLeft" THEN co.row + ix ELSE co.row - ix,
                           CASE dir = "Up" -> co.col
                             [] dir = "UpRight" -> co.col + ix
                             [] dir = "DownLeft" -> co.col - ix))
           ELSE None
      [] dir = "Right" -> Some(Coord(co.row, co.col + ix))
      [] dir = "DownRight" -> Some(Coord(co.row + ix, co.col + ix))
      [] dir = "Down" -> Some(Coord(co.row + ix, co.col))
      [] dir = "Left" ->
           IF co.col >= ix THEN Some(Coord(co.row, co.col - ix)) ELSE None
      [] dir = "UpLeft" ->
           IF co.col >= ix /\ co.row >= ix
           THEN Some(Coord(co.row - ix, co.col - ix)) ELSE None

\* CoordinatesIterator::next for the step number ix: the coordinate ix cells
\* away from the origin, None where the subtraction would go below zero.
CoordsWalk(co, dir, ix) ==
    CASE dir = "Up" ->
           IF co.row >= ix THEN Some(Coord(co.row - ix, co.col)) ELSE None
      [] dir = "UpRight" ->
           IF co.row >= ix THEN Some(Coord(co.row - ix, co.col + ix)) ELSE None
      [] dir = "Right" -> Some(Coord(co.row, co.col + ix))
      [] dir = "DownRight" -> Some(Coord(co.row + ix, co.col + ix))
      [] dir = "Down" -> Some(Coord(co.row + ix, co.col))
      [] dir = "DownLeft" ->
           IF co.col >= ix THEN Some(Coord(co.row + ix, co.col - ix)) ELSE None
      [] dir = "Left" ->
           IF co.col >= ix THEN Some(Coord(co.row, co.col - ix)) ELSE None
      [] dir = "UpLeft" ->
           IF co.col >= ix /\ co.row >= ix
           THEN Some(Coord(co.row - ix, co.col - ix)) ELSE None

\* -------------------------------------------------------------------- grid
\* Board::new with the two colours of the seed exchanged.
BoardNewData_ColoursExchanged(sz) ==
    LET half == sz \div 2 IN
    [r \in 0..(sz - 1) |->
        [c \in 0..(sz - 1) |->
            IF (r = half /\ c = half) \/ (r = half - 1 /\ c = half - 1)
            THEN WrapToChar("Red")
            ELSE IF (r = half /\ c = half - 1) \/ (r = half - 1 /\ c = half)
            THEN WrapToChar("Blue")
            ELSE WrapToChar("None")]]

\* Board::new: the size x size matrix with the four seeded centre cells.
\* (r == half && c == half) is tested first, so half - 1 is evaluated only
\* when r # half or c # half, where size >= 2 and half >= 1.
BoardNewData(sz) ==
    LET half == sz \div 2 IN
    [r \in 0..(sz - 1) |->
        [c \in 0..(sz - 1) |->
            IF (r = half /\ c = half) \/ (r = half - 1 /\ c = half - 1)
            THEN WrapToChar("Blue")
            ELSE IF (r = half /\ c = half - 1) \/ (r = half - 1 /\ c = half)
            THEN WrapToChar("Red")
            ELSE WrapToChar("None")]]

\* Board::new returns Ok for every size: it has no error path.
BoardNew(sz) == [ok |-> TRUE, err |-> "", size |-> sz, data |-> BoardNewData(sz)]

\* Position::new: the view of the shared data at coords
Position(co) == [coords |-> co]

\* Board::get handing out the view of the transposed cell.
BoardGet_Transposed(sz, co) ==
    IF sz > co.row /\ sz > co.col
    THEN [ok |-> TRUE, err |-> "", position |-> Some(Position(Coord(co.col, co.row)))]
    ELSE [ok |-> FALSE, err |-> "InvalidPosition", position |-> None]

\* Board::get: a Position at coords, or InvalidPosition.
BoardGet(sz, co) ==
    IF sz > co.row /\ sz > co.col
    THEN [ok |-> TRUE, err |-> "", position |-> Some(Position(co))]
    ELSE [ok |-> FALSE, err |-> "InvalidPosition", position |-> None]

\* Position::piece: the cell read through the view.
PositionPiece(d, co) == CharToWrap(d[co.row][co.col])

\* Position::occupied
Occupied(d, co) == PositionPiece(d, co) \in Pieces

\* The write through a view: data[row][col] = ch
Write(d, co, ch) == [d EXCEPT ![co.row][co.col] = ch]

\* Position::flip clearing the cell instead of writing !p.
PositionFlip_EmptiesCell(d, co) ==
    LET p == CharToWrap(d[co.row][co.col]) IN
    IF p \in Pieces
    THEN [ok |-> TRUE, err |-> "", data |-> [d EXCEPT ![co.row][co.col] = " "]]
    ELSE [ok |-> FALSE, err |-> "FlipError", data |-> d]

\* Position::flip writing the colour it read back, p instead of !p.
PositionFlip_KeepsColour(d, co) ==
    LET p == CharToWrap(d[co.row][co.col]) IN
    IF p \in Pieces
    THEN [ok |-> TRUE, err |-> "", data |-> [d EXCEPT ![co.row][co.col] = PieceToChar(p)]]
    ELSE [ok |-> FALSE, err |-> "FlipError", data |-> d]

\* Position::flip on the grid d: the result and the grid afterwards.
PositionFlip(d, co) ==
    LET p == PositionPiece(d, co) IN
    IF p \in Pieces
    THEN [ok |-> TRUE, err |-> "", data |-> Write(d, co, PieceToChar(NotPiece(p)))]
    ELSE [ok |-> FALSE, err |-> "FlipError", data |-> d]

\* ------------------------------------------------------------------ walker
\* PositionWalker::walk with the bounds test of the row alone.
PositionWalk_RowBoundOnly(sz, co, dir, length) ==
    LET coords == CoordsWalk(co, dir, length) IN
    IF IsSome(coords) /\ sz > Unwrap(coords).row
    THEN coords ELSE None

\* PositionWalker::walk: the coordinate walker followed by the bounds test.
PositionWalk(sz, co, dir, length) ==
    LET coords == CoordsWalk(co, dir, length) IN
    IF IsSome(coords) /\ sz > Unwrap(coords).row /\ sz > Unwrap(coords).col
    THEN coords ELSE None

\* WalkerIterator under take_while(|p| p.piece() == Some(!piece)): the items
\* walk(ix), walk(ix + 1), ... from the origin up to the first None or the
\* first cell that does not hold the opposite colour.
RECURSIVE TakeWhileOpposite(_, _, _, _, _, _)
TakeWhileOpposite(sz, d, co, dir, piece, ix) ==
    LET next == PositionWalk(sz, co, dir, ix) IN
    IF IsSome(next) /\ PositionPiece(d, Unwrap(next)) = NotPiece(piece)
    THEN <<Unwrap(next)>> \o TakeWhileOpposite(sz, d, co, dir, piece, ix + 1)
    ELSE <<>>

\* solve_dir, first half: the run collected in direction dir.
Turnnables(sz, d, co, dir, piece) == TakeWhileOpposite(sz, d, co, dir, piece, 1)

\* Turn without the test of the anchor: every non-empty run is flipped.
Turn_NoAnchor(sz, d, t, dir, piece) == t # <<>>

\* Turn taking the edge of the board for an anchor.
Turn_EdgeIsAnchor(sz, d, t, dir, piece) ==
    IF t = <<>> THEN FALSE
    ELSE LET nxt == PositionWalk(sz, t[Len(t)], dir, 1) IN
         IF IsSome(nxt) THEN PositionPiece(d, Unwrap(nxt)) = piece ELSE TRUE

\* solve_dir, second half: the cell one step after the last cell of the run
\* t exists and holds the colour placed (false for the empty run).
Turn(sz, d, t, dir, piece) ==
    IF t = <<>> THEN FALSE
    ELSE LET nxt == PositionWalk(sz, t[Len(t)], dir, 1) IN
         IF IsSome(nxt) THEN PositionPiece(d, Unwrap(nxt)) = piece ELSE FALSE

\* The loop of the flips starting after the first cell of the run.
RECURSIVE FlipAll_SkipsFirst(_, _)
FlipAll_SkipsFirst(d, ps) ==
    IF Len(ps) <= 1 THEN d
    ELSE FlipAll_SkipsFirst(PositionFlip(d, ps[Len(ps)]).data, SubSeq(ps, 1, Len(ps) - 1))

\* for p in turnnables { p.flip(); }
RECURSIVE FlipAll(_, _)
FlipAll(d, ps) ==
    IF ps = <<>> THEN d ELSE FlipAll(PositionFlip(d, Head(ps)).data, Tail(ps))

\* solve_dir flipping the anchor along with the run.
SolveDir_FlipsAnchor(sz, d, co, dir, piece) ==
    LET t == Turnnables(sz, d, co, dir, piece) IN
    IF Turn(sz, d, t, dir, piece)
    THEN [data |-> FlipAll(d, t \o <<Unwrap(PositionWalk(sz, t[Len(t)], dir, 1))>>),
          flips |-> t]
    ELSE [data |-> d, flips |-> <<>>]

\* Position::solve_dir: the grid after the scan of one direction, and the
\* cells it flipped.
SolveDir(sz, d, co, dir, piece) ==
    LET t == Turnnables(sz, d, co, dir, piece) IN
    IF Turn(sz, d, t, dir, piece)
    THEN [data |-> FlipAll(d, t), flips |-> t]
    ELSE [data |-> d, flips |-> <<>>]

\* Position::solve over the directions order[from..]: each direction scans
\* the grid the previous directions left; flips collects the cells flipped.
RECURSIVE SolveFrom(_, _, _, _, _, _, _)
SolveFrom(sz, d, flips, co, piece, order, from) ==
    IF from > Len(order) THEN [data |-> d, flips |-> flips]
    ELSE LET s == SolveDir(sz, d, co, order[from], piece) IN
         SolveFrom(sz, s.data, flips \o s.flips, co, piece, order, from + 1)

\* Position::solve: for dir in all::<Dir>() { self.solve_dir(piece, dir) }
Solve(sz, d, co, piece) == SolveFrom(sz, d, <<>>, co, piece, Dirs, 1)

\* The flips Position::place hands back to Game::place.
PlaceFlips(solved) == solved.flips

\* Position::place without the test of occupied().
PositionPlace_NoOccupiedTest(sz, d, co, piece) ==
    LET solved == Solve(sz, d, co, piece) IN
    [ok |-> TRUE, err |-> "",
     data |-> Write(solved.data, co, PieceToChar(piece)),
     flips |-> PlaceFlips(solved)]

\* Position::place with the rule of the classical game: a placement that
\* captures nothing is rejected.
PositionPlace_RequiresCapture(sz, d, co, piece) ==
    LET solved == Solve(sz, d, co, piece) IN
    IF Occupied(d, co) \/ solved.flips = <<>>
    THEN [ok |-> FALSE, err |-> "PositionAlreadyOccupied", data |-> d, flips |-> <<>>]
    ELSE [ok |-> TRUE, err |-> "",
          data |-> Write(solved.data, co, PieceToChar(piece)),
          flips |-> PlaceFlips(solved)]

\* Position::place on the grid d: the result and the grid afterwards.
PositionPlace(sz, d, co, piece) ==
    IF Occupied(d, co)
    THEN [ok |-> FALSE, err |-> "PositionAlreadyOccupied", data |-> d, flips |-> <<>>]
    ELSE LET solved == Solve(sz, d, co, piece) IN
         [ok |-> TRUE, err |-> "",
          data |-> Write(solved.data, co, PieceToChar(piece)),
          flips |-> PlaceFlips(solved)]

\* -------------------------------------------------------- coordinate text
\* A text is a sequence of characters; a character is a one-character string.
Upper == <<"A", "B", "C", "D", "E", "F", "G", "H", "I", "J", "K", "L", "M",
           "N", "O", "P", "Q", "R", "S", "T", "U", "V", "W", "X", "Y", "Z">>

Lower == <<"a", "b", "c", "d", "e", "f", "g", "h", "i", "j", "k", "l", "m",
           "n", "o", "p", "q", "r", "s", "t", "u", "v", "w", "x", "y", "z">>

Digits == <<"0", "1", "2", "3", "4", "5", "6", "7", "8", "9">>

UpperSet == {Upper[i] : i \in 1..Len(Upper)}

LowerSet == {Lower[i] : i \in 1..Len(Lower)}

DigitSet == {Digits[i] : i \in 1..Len(Digits)}

\* The largest usize, narrowed to the integers of the model checker; it is
\* what 0 - 1 wraps to in a build without overflow checks.
UsizeMax == 2147483647

\* c.to_ascii_uppercase() as u8 - 'A' as u8 + 1, for a letter c
LetterDigit(ch) ==
    IF ch \in UpperSet
    THEN CHOOSE i \in 1..Len(Upper) : Upper[i] = ch
    ELSE CHOOSE i \in 1..Len(Lower) : Lower[i] = ch

\* the value of an ASCII digit
DigitValue(ch) == (CHOOSE i \in 1..Len(Digits) : Digits[i] = ch) - 1

\* The loop of to_str with the digits of the plain base 26: temp_row % 26 and
\* temp_row / 26, without the two subtractions of 1.
RECURSIVE RowLetters_PlainBase26(_)
RowLetters_PlainBase26(temp_row) ==
    IF temp_row > 0
    THEN RowLetters_PlainBase26(temp_row \div 26) \o <<Upper[(temp_row % 26) + 1]>>
    ELSE <<>>

\* RowIdentifier::to_str, the loop: the letters of temp_row, most significant first
RECURSIVE RowLetters(_)
RowLetters(temp_row) ==
    IF temp_row > 0
    THEN RowLetters((temp_row - 1) \div 26) \o <<Upper[((temp_row - 1) % 26) + 1]>>
    ELSE <<>>

\* RowIdentifier::to_str
RowToStr(row) == RowLetters(row + 1)

\* Display for usize: the decimal digits of n
RECURSIVE Decimal(_)
Decimal(n) ==
    IF n < 10 THEN <<Digits[n + 1]>> ELSE Decimal(n \div 10) \o <<Digits[(n % 10) + 1]>>

\* Display for Coordinates writing the stored column, not col + 1.
CoordsToString_StoredCol(co) == RowToStr(co.row) \o <<":">> \o Decimal(co.col)

\* Display for Coordinates: "{row letters}:{col + 1}"
CoordsToString(co) == RowToStr(co.row) \o <<":">> \o Decimal(co.col + 1)

\* a + b on usize in a build without overflow checks: modulo UsizeMax + 1
WrappingAdd(a, b) == IF a > UsizeMax - b THEN (a - (UsizeMax - b)) - 1 ELSE a + b

\* a * n on usize in a build without overflow checks, for n < 32768: the
\* upper and the lower 16 bits of a are multiplied apart, so that no
\* intermediate value leaves the integers of the model checker.
WrappingMul(a, n) ==
    WrappingAdd((((a \div 65536) * n) % 32768) * 65536, (a % 65536) * n)

\* RowIdentifier::parse, the loop: res = res * 26; res = res + digit over the
\* letters, as a build without overflow checks computes it.
RECURSIVE RowAccumulate(_, _)
RowAccumulate(str, res) ==
    IF str = <<>> THEN res
    ELSE RowAccumulate(Tail(str), WrappingAdd(WrappingMul(res, 26), LetterDigit(Head(str))))

\* The first operation of the loop that leaves the usize range, where a build
\* with overflow checks panics: its message, "" when there is none.
RECURSIVE RowOverflow(_, _)
RowOverflow(str, res) ==
    IF str = <<>> THEN ""
    ELSE IF res > UsizeMax \div 26 THEN "attempt to multiply with overflow"
    ELSE IF res * 26 > UsizeMax - LetterDigit(Head(str)) THEN "attempt to add with overflow"
    ELSE RowOverflow(Tail(str), res * 26 + LetterDigit(Head(str)))

\* RowIdentifier::parse: ParseError(str) unless str matches \A([A-Z]|[a-z])+\z,
\* else Ok(res - 1). res is the value left by the loop and row is res - 1 as a
\* build without overflow checks computes them; overflow is the panic of a
\* build with overflow checks in the loop ("" for a text whose value is a
\* usize, where the two builds agree).
RowParse(str) ==
    IF str = <<>> \/ \E i \in 1..Len(str) : str[i] \notin UpperSet \cup LowerSet
    THEN [ok |-> FALSE, err |-> "ParseError", arg |-> str, row |-> 0, res |-> 0,
          overflow |-> ""]
    ELSE LET res == RowAccumulate(str, 0) IN
         [ok |-> TRUE, err |-> "", arg |-> str,
          row |-> IF res = 0 THEN UsizeMax ELSE res - 1,
          res |-> res, overflow |-> RowOverflow(str, 0)]

\* What \d of the regex crate matches: the decimal digits of Unicode, of which
\* the model has the ten ASCII digits and U+0663 (ARABIC-INDIC DIGIT THREE),
\* a character written here by its code point.
RegexDigitSet == DigitSet \cup {"U+0663"}

\* str::parse::<usize> of a non-empty text, on top of the value acc: every
\* character has to be an ASCII digit and acc * 10 + digit is computed with
\* checked arithmetic; None stands for Err(ParseIntError).
RECURSIVE ParseDecimal(_, _)
ParseDecimal(str, acc) ==
    IF str = <<>> THEN Some(acc)
    ELSE IF Head(str) \notin DigitSet THEN None
    ELSE IF acc > (UsizeMax - DigitValue(Head(str))) \div 10 THEN None
    ELSE ParseDecimal(Tail(str), acc * 10 + DigitValue(Head(str)))

\* The regex of from_str, \A(?P<row>[A-Z]+):(?P<col>\d+)\z: the index of the
\* colon when the text matches, 0 when it does not.
ColonIndex(s) ==
    LET Matches(i) == /\ s[i] = ":"
                      /\ i > 1 /\ i < Len(s)
                      /\ \A j \in 1..(i - 1) : s[j] \in UpperSet
                      /\ \A j \in (i + 1)..Len(s) : s[j] \in RegexDigitSet
    IN IF \E i \in 1..Len(s) : Matches(i)
       THEN CHOOSE i \in 1..Len(s) : Matches(i)
       ELSE 0

\* The outcome of from_str: kind is "Ok" (coords is the value), "Err" (err
\* is the error, arg the text it carries) or "Panic" (err is the message).
Parsed(kind, err, arg, co) == [kind |-> kind, err |-> err, arg |-> arg, coords |-> co]

\* FromStr for Coordinates: the set of outcomes the builds can produce.
\* .parse().expect(..) panics when the column is no usize; a row whose value
\* is no usize panics in the loop of RowIdentifier::parse in a build with
\* overflow checks; col - 1 on the column number 0 panics in a build with
\* overflow checks and wraps to the largest usize in a build without them.
CoordsFromStr(s) ==
    LET i == ColonIndex(s) IN
    IF i = 0
    THEN {Parsed("Err", "ParseError", s, Coord(0, 0))}
    ELSE LET col == ParseDecimal(SubSeq(s, i + 1, Len(s)), 0)
             row == RowParse(SubSeq(s, 1, i - 1))
         IN IF ~IsSome(col)
            THEN {Parsed("Panic", "Failed to parse col. a number was expected", s,
                         Coord(0, 0))}
            ELSE IF ~row.ok
            THEN {Parsed("Err", row.err, row.arg, Coord(0, 0))}
            ELSE IF row.overflow # ""
            THEN {Parsed("Panic", row.overflow, s, Coord(0, 0)),
                  IF Unwrap(col) = 0
                  THEN Parsed("Ok", "", s, Coord(row.row, UsizeMax))
                  ELSE Parsed("Ok", "", s, Coord(row.row, Unwrap(col) - 1))}
            ELSE IF Unwrap(col) = 0
            THEN {Parsed("Panic", "attempt to subtract with overflow", s, Coord(0, 0)),
                  Parsed("Ok", "", s, Coord(row.row, UsizeMax))}
            ELSE {Parsed("Ok", "", s, Coord(row.row, Unwrap(col) - 1))}

\* -------------------------------------------------------------------- game
\* struct Move
Move(piece, co) == [piece |-> piece, coords |-> co]

\* MoveResume::new
MoveResume(at, piece, flips, winner) ==
    [at |-> at, piece |-> piece, flips |-> flips, winner |-> winner]

NoResume == MoveResume(Coord(0, 0), "", <<>>, "None")

\* Game::place that leaves the turn with the colour that moved.
GamePlaceAt_KeepsTurn(sz, d, t, ms, co) ==
    LET got == BoardGet(sz, co) IN
    IF ~got.ok
    THEN [ok |-> FALSE, err |-> got.err, data |-> d, turn |-> t, moves |-> ms,
          resume |-> NoResume]
    ELSE LET placed == PositionPlace(sz, d, Unwrap(got.position).coords, t) IN
         IF ~placed.ok
         THEN [ok |-> FALSE, err |-> placed.err, data |-> d, turn |-> t, moves |-> ms,
               resume |-> NoResume]
         ELSE [ok |-> TRUE, err |-> "", data |-> placed.data,
               turn |-> t,
               moves |-> Append(ms, Move(t, co)),
               resume |-> MoveResume(co, t, placed.flips, "None")]

\* Game::place that builds its result after the change of turn.
GamePlaceAt_ResumeAfterTurn(sz, d, t, ms, co) ==
    LET got == BoardGet(sz, co) IN
    IF ~got.ok
    THEN [ok |-> FALSE, err |-> got.err, data |-> d, turn |-> t, moves |-> ms,
          resume |-> NoResume]
    ELSE LET placed == PositionPlace(sz, d, Unwrap(got.position).coords, t) IN
         IF ~placed.ok
         THEN [ok |-> FALSE, err |-> placed.err, data |-> d, turn |-> t, moves |-> ms,
               resume |-> NoResume]
         ELSE [ok |-> TRUE, err |-> "", data |-> placed.data,
               turn |-> NotPiece(t),
               moves |-> Append(ms, Move(t, co)),
               resume |-> MoveResume(co, NotPiece(t), placed.flips, "None")]

\* Game::place after the text was parsed to co: Board::get, Position::place,
\* then the push on the history and the change of turn.
GamePlaceAt(sz, d, t, ms, co) ==
    LET got == BoardGet(sz, co) IN
    IF ~got.ok
    THEN [ok |-> FALSE, err |-> got.err, data |-> d, turn |-> t, moves |-> ms,
          resume |-> NoResume]
    ELSE LET placed == PositionPlace(sz, d, Unwrap(got.position).coords, t) IN
         IF ~placed.ok
         THEN [ok |-> FALSE, err |-> placed.err, data |-> d, turn |-> t, moves |-> ms,
               resume |-> NoResume]
         ELSE [ok |-> TRUE, err |-> "", data |-> placed.data,
               turn |-> NotPiece(t),
               moves |-> Append(ms, Move(t, co)),
               resume |-> MoveResume(co, t, placed.flips, "None")]

\* ------------------------------------------------------------------ inputs
InputCoords == {Coord(r, c) : r \in 0..MaxCoord, c \in 0..MaxCoord}

\* Texts that from_str rejects, or on which it subtracts from zero.
BadTexts == { <<"a", ":", "1">>, <<"A", "1">>, <<"A", ":", "0">> }

InputTexts == {CoordsToString(co) : co \in InputCoords} \cup BadTexts

\* ----------------------------------------------------------------- actions
\* The record of an operation: name, arguments, grid and game before it.
Op(name) ==
    [op |-> name, co |-> Coord(0, 0), text |-> <<>>, piece |-> "", ok |-> TRUE, err |-> "",
     position |-> None, resume |-> NoResume, before |-> data,
     turnBefore |-> turn, movesBefore |-> moves]

Init ==
    /\ phase = "start"
    /\ size = 0
    /\ data = BoardNewData(0)
    /\ turn = "Blue"
    /\ moves = <<>>
    /\ budget = MaxOps
    /\ last = Op("none")
    /\ store = <<>>
    /\ views = <<>>

\* Game::new(board_size): turn is Piece::rand(), the board is Board::new(board_size)?
GameNew(sz, first) ==
    /\ phase = "start"
    /\ \E b \in {BoardNew(sz)} :
         IF b.ok
         THEN /\ phase' = "playing"
              /\ size' = b.size
              /\ data' = b.data
              /\ turn' = first
              /\ moves' = <<>>
              /\ last' = [Op("new") EXCEPT !.co = Coord(sz, sz), !.piece = first]
         ELSE /\ last' = [Op("new") EXCEPT !.co = Coord(sz, sz), !.piece = first,
                                           !.ok = FALSE, !.err = b.err]
              /\ UNCHANGED <<phase, size, data, turn, moves>>
    /\ UNCHANGED budget
    /\ UNCHANGED <<store, views>>

Playing == phase = "playing" /\ budget > 0

\* The views that exist of a board of size sz: one per cell.
Positions(sz) == {Position(Coord(r, c)) : r \in 0..(sz - 1), c \in 0..(sz - 1)}

\* board.get(&coords)
Get(co) ==
    /\ Playing
    /\ \E got \in {BoardGet(size, co)} :
         last' = [Op("get") EXCEPT !.co = co, !.ok = got.ok, !.err = got.err,
                                   !.position = got.position]
    /\ budget' = budget - 1
    /\ UNCHANGED <<phase, size, data, turn, moves>>
    /\ UNCHANGED <<store, views>>

\* position.place(piece) through a view of the board
Place(co, piece) ==
    /\ Playing
    /\ Position(co) \in Positions(size)
    /\ \E placed \in {PositionPlace(size, data, co, piece)} :
         /\ data' = placed.data
         /\ last' = [Op("place") EXCEPT !.co = co, !.piece = piece, !.ok = placed.ok,
                                       !.err = placed.err,
                                       !.position = IF placed.ok THEN Some(Position(co))
                                                    ELSE None]
    /\ budget' = budget - 1
    /\ UNCHANGED <<phase, size, turn, moves>>
    /\ UNCHANGED <<store, views>>

\* position.flip() through a view of the board
Flip(co) ==
    /\ Playing
    /\ Position(co) \in Positions(size)
    /\ \E flipped \in {PositionFlip(data, co)} :
         /\ data' = flipped.data
         /\ last' = [Op("flip") EXCEPT !.co = co, !.ok = flipped.ok, !.err = flipped.err,
                                      !.position = IF flipped.ok THEN Some(Position(co))
                                                   ELSE None]
    /\ budget' = budget - 1
    /\ UNCHANGED <<phase, size, turn, moves>>
    /\ UNCHANGED <<store, views>>

\* game.place(text)
GamePlace(text) ==
    /\ Playing
    /\ \E parsed \in CoordsFromStr(text) :
         CASE parsed.kind = "Panic" ->
                /\ phase' = "panicked"
                /\ last' = [Op("game_place") EXCEPT !.text = text, !.piece = turn,
                                                   !.ok = FALSE, !.err = parsed.err]
                /\ UNCHANGED <<size, data, turn, moves>>
           [] parsed.kind = "Err" ->
                /\ last' = [Op("game_place") EXCEPT !.text = text, !.piece = turn,
                                                   !.ok = FALSE, !.err = parsed.err]
                /\ UNCHANGED <<phase, size, data, turn, moves>>
           [] parsed.kind = "Ok" ->
                \E r \in {GamePlaceAt(size, data, turn, moves, parsed.coords)} :
                /\ data' = r.data
                /\ turn' = r.turn
                /\ moves' = r.moves
                /\ last' = [Op("game_place") EXCEPT !.text = text, !.co = parsed.coords,
                                                   !.piece = turn, !.ok = r.ok,
                                                   !.err = r.err, !.resume = r.resume]
                /\ UNCHANGED <<phase, size>>
    /\ budget' = budget - 1
    /\ UNCHANGED <<store, views>>

Next ==
    \/ \E sz \in 0..MaxSize, first \in Pieces : GameNew(sz, first)
    \/ \E co \in InputCoords : Get(co)
    \/ \E co \in InputCoords, piece \in Pieces : Place(co, piece)
    \/ \E co \in InputCoords : Flip(co)
    \/ \E text \in InputTexts : GamePlace(text)

Spec == Init /\ [][Next]_vars

\* The longer runs on one board: the state after Game::new(DeepSize), then
\* placements and flips through views.
InitDeep ==
    /\ phase = "playing"
    /\ size = BoardNew(DeepSize).size
    /\ data = BoardNew(DeepSize).data
    /\ turn \in Pieces
    /\ moves = <<>>
    /\ budget = DeepOps
    /\ last = [Op("new") EXCEPT !.co = Coord(DeepSize, DeepSize), !.piece = turn]
    /\ store = <<>>
    /\ views = <<>>

NextDeep ==
    \/ \E co \in InputCoords, piece \in Pieces : Place(co, piece)
    \/ \E co \in InputCoords : Flip(co)

SpecDeep == InitDeep /\ [][NextDeep]_vars

\* ------------------------------------------------ calls without a game
\* impl From<char> for Piece: 'R' and 'B', and panic!("erro") for the rest
CharToPiece(ch) ==
    CASE ch = "R" -> [kind |-> "Ok", err |-> "", piece |-> "Red"]
      [] ch = "B" -> [kind |-> "Ok", err |-> "", piece |-> "Blue"]
      [] OTHER    -> [kind |-> "Panic", err |-> "erro", piece |-> ""]

\* MatrixPointer: the identity of the shared matrix and the size it reports
Matrix(id, sz) == [id |-> id, size |-> sz]

\* struct Position { matrix, coords }
View(matrix, co) == [matrix |-> matrix, coords |-> co]

\* PositionWalker::walk on the view self.0: Position::new(self.0.matrix.clone(), c)
WalkerWalk(view, dir, length) ==
    LET coords == PositionWalk(view.matrix.size, view.coords, dir, length) IN
    IF IsSome(coords) THEN Some(View(view.matrix, Unwrap(coords))) ELSE None

\* The texts of the calls.
ToLower(str) ==
    [i \in 1..Len(str) |->
        IF str[i] \in UpperSet THEN Lower[LetterDigit(str[i])] ELSE str[i]]

\* Every non-empty text of at most two capital letters, and some of three.
UpperTexts ==
    {<<a>> : a \in UpperSet} \cup {<<a, b>> : a \in UpperSet, b \in UpperSet}
        \cup {<<"A", "A", "A">>, <<"A", "B", "C">>}

\* Texts of seven letters: the numeral of 321272407 (the least of seven
\* letters), of UsizeMax, of UsizeMax + 1 and of UsizeMax + 6.
LongRowTexts ==
    { <<"A", "A", "A", "A", "A", "A", "A">>, <<"F", "X", "S", "H", "R", "X", "W">>,
      <<"F", "X", "S", "H", "R", "X", "X">>, <<"F", "X", "S", "H", "R", "Y", "C">> }

\* Texts RowIdentifier::parse is called with: letters of both cases, and texts
\* that are not letters.
RowTexts ==
    UpperTexts \cup {ToLower(t) : t \in UpperTexts} \cup LongRowTexts
        \cup { <<"a", "B">>, <<"A", "b">>, <<>>, <<"1">>, <<" ", "/", " ">>,
               <<"A", "1">>, <<"A", " ">>, <<":">> }

TextCoords == {Coord(r, c) : r \in 0..MaxTextRow, c \in 0..MaxTextCol}

\* Texts from_str is called with: the formats of TextCoords, the same with
\* small letters, and texts off the format.
OddTexts ==
    { <<>>, <<"B">>, <<"B", "1">>, <<"B", " ", "1">>, <<":", "1">>, <<"B", ":">>,
      <<"B", ":", "x">>, <<"B", ":", "1", "x">>, <<"B", ":", "1", " ">>,
      <<" ", "B", ":", "1">>, <<"B", ":", ":", "1">>, <<"1", ":", "1">>,
      <<"B", ":", "-", "1">>, <<"B", ":", "1", ".", "5">>, <<"B", "1", ":", "1">>,
      <<"A", ":", "0">>, <<"A", "A", ":", "0">>, <<"A", ":", "0", "0">>,
      <<"A", ":", "0", "7">>, <<"a", "B", ":", "2">>,
      <<"A", ":", "U+0663">>, <<"A", ":", "1", "U+0663">>,
      <<"A", ":", "2", "1", "4", "7", "4", "8", "3", "6", "4", "7">>,
      <<"A", ":", "2", "1", "4", "7", "4", "8", "3", "6", "4", "8">>,
      <<"A", ":", "9", "9", "9", "9", "9", "9", "9", "9", "9", "9", "9">> }

ParseTexts ==
    {CoordsToString(co) : co \in TextCoords}
        \cup {ToLower(CoordsToString(co)) : co \in TextCoords}
        \cup OddTexts

\* Characters a cell is decoded from, in and out of the alphabet.
CellChars == {" ", "B", "R", "X", "b", "r", "0", "."}

Matrices == {Matrix(id, sz) : id \in 1..2, sz \in 0..MaxWalkSize}

\* The record of a call: its name and arguments, and once it returned its
\* outcome (kind, err and arg as in Parsed, out the value returned).
Call(name) ==
    [op |-> name, co |-> Coord(0, 0), text |-> <<>>, dir |-> "", ix |-> 0,
     view |-> None, kind |-> "", err |-> "", arg |-> <<>>, out |-> None]

\* The calls made: one function on one input each.
Calls ==
    {[Call("to_string") EXCEPT !.co = co] : co \in TextCoords}
  \cup {[Call("from_str") EXCEPT !.text = text] : text \in ParseTexts}
  \cup {[Call("row_to_str") EXCEPT !.co = Coord(row, 0)] : row \in 0..MaxRow}
  \cup {[Call("row_parse") EXCEPT !.text = str] : str \in RowTexts}
  \cup {[Call("coords_next") EXCEPT !.co = co, !.dir = dir, !.ix = ix] :
           co \in InputCoords, dir \in DirSet, ix \in 1..MaxStep}
  \cup {[Call("walk") EXCEPT !.view = Some(View(m, co)), !.dir = dir, !.ix = length] :
           m \in {m \in Matrices : m.size > 0},
           co \in {co \in InputCoords : co.row < MaxWalkSize /\ co.col < MaxWalkSize},
           dir \in DirSet, length \in 1..MaxStep}
  \cup {[Call("wrap_try_from") EXCEPT !.text = <<ch>>] : ch \in CellChars}
  \cup {[Call("wrap_try_into") EXCEPT !.arg = <<w>>] : w \in Pieces \cup {"None"}}
  \cup {[Call("piece_from") EXCEPT !.text = <<ch>>] : ch \in CellChars}
  \cup {[Call("piece_into") EXCEPT !.arg = <<p>>] : p \in Pieces}

\* A view exists of a cell of its matrix only (Board::get hands out no other).
InitCalls ==
    /\ phase = "called"
    /\ size = 0
    /\ data = BoardNewData(0)
    /\ turn = "Blue"
    /\ moves = <<>>
    /\ budget = 0
    /\ last \in Calls
    /\ last.op = "walk" =>
          /\ Unwrap(last.view).coords.row < Unwrap(last.view).matrix.size
          /\ Unwrap(last.view).coords.col < Unwrap(last.view).matrix.size
    /\ store = <<>>
    /\ views = <<>>

Called(name) == phase = "called" /\ last.op = name

\* The call returned the outcome (kind, err, arg, out), or it panicked.
Return(kind, err, arg, out) ==
    /\ last' = [last EXCEPT !.kind = kind, !.err = err, !.arg = arg, !.out = out]
    /\ phase' = IF kind = "Panic" THEN "panicked" ELSE "returned"
    /\ UNCHANGED <<size, data, turn, moves, budget>>
    /\ UNCHANGED <<store, views>>

\* coords.to_string()
CallToString ==
    /\ Called("to_string")
    /\ Return("Ok", "", <<>>, Some(CoordsToString(last.co)))

\* Coordinates::from_str(text)
CallFromStr ==
    /\ Called("from_str")
    /\ \E parsed \in CoordsFromStr(last.text) :
         Return(parsed.kind, parsed.err, parsed.arg,
                IF parsed.kind = "Ok" THEN Some(parsed.coords) ELSE None)

\* RowIdentifier::to_str(row)
CallRowToStr ==
    /\ Called("row_to_str")
    /\ Return("Ok", "", <<>>, Some(RowToStr(last.co.row)))

\* RowIdentifier::parse(str), in a build with or without overflow checks
CallRowParse ==
    /\ Called("row_parse")
    /\ \E r \in {RowParse(last.text)} :
         IF ~r.ok THEN Return("Err", r.err, r.arg, None)
         ELSE \/ r.overflow # "" /\ Return("Panic", r.overflow, last.text, None)
              \/ Return("Ok", "", <<>>, Some(r.row))

\* The call number ix of next() on coords.iterator(dir)
CallCoordsNext ==
    /\ Called("coords_next")
    /\ Return("Ok", "", <<>>, CoordsWalk(last.co, last.dir, last.ix))

\* view.walker(dir).walk(length)
CallWalk ==
    /\ Called("walk")
    /\ Return("Ok", "", <<>>, WalkerWalk(Unwrap(last.view), last.dir, last.ix))

\* Wrap::<Option<Piece>>::try_from(ch)
CallCharToWrap ==
    /\ Called("wrap_try_from")
    /\ \E w \in {CharToWrap(last.text[1])} :
         IF w = "ParseError" THEN Return("Err", w, <<>>, None)
         ELSE Return("Ok", "", <<>>, Some(w))

\* Wrap(w).try_into()
CallWrapToChar ==
    /\ Called("wrap_try_into")
    /\ Return("Ok", "", last.arg, Some(WrapToChar(last.arg[1])))

\* Piece::from(ch)
CallCharToPiece ==
    /\ Called("piece_from")
    /\ \E p \in {CharToPiece(last.text[1])} :
         Return(p.kind, p.err, <<>>, IF p.kind = "Ok" THEN Some(p.piece) ELSE None)

\* char::from(piece)
CallPieceToChar ==
    /\ Called("piece_into")
    /\ Return("Ok", "", last.arg, Some(PieceToChar(last.arg[1])))

NextCalls ==
    \/ CallToString
    \/ CallFromStr
    \/ CallRowToStr
    \/ CallRowParse
    \/ CallCoordsNext
    \/ CallWalk
    \/ CallCharToWrap
    \/ CallWrapToChar
    \/ CallCharToPiece
    \/ CallPieceToChar

SpecCalls == InitCalls /\ [][NextCalls]_vars

\* ------------------------------------------------ the views of one board
\* Board.data, the pointer of the board to its matrix: the one matrix that
\* Board::new makes, the first of store.
BoardMatrixId == 1

BoardMatrix(sz) == Matrix(BoardMatrixId, sz)

\* Board::get handing out a view of a copy of the matrix made at the call.
BoardGetView_CopiesMatrix(st, m, co) ==
    IF m.size > co.row /\ m.size > co.col
    THEN [ok |-> TRUE, err |-> "",
          view |-> Some(View(Matrix(Len(st) + 1, m.size), co)),
          store |-> Append(st, st[m.id])]
    ELSE [ok |-> FALSE, err |-> "InvalidPosition", view |-> None, store |-> st]

\* Board::get as the caller of Position::new(self.data.clone(), coords): the
\* view holds a clone of the pointer, no matrix is made.
BoardGetView(st, m, co) ==
    IF m.size > co.row /\ m.size > co.col
    THEN [ok |-> TRUE, err |-> "", view |-> Some(View(m, co)), store |-> st]
    ELSE [ok |-> FALSE, err |-> "InvalidPosition", view |-> None, store |-> st]

\* #[derive(Clone)] on Position: the pointer and the coordinates are cloned
PositionClone(view) == View(view.matrix, view.coords)

\* The sequence s without its element number i (a view that was consumed).
RemoveAt(s, i) == SubSeq(s, 1, i - 1) \o SubSeq(s, i + 1, Len(s))

\* The coordinates the caller asks views of.
ViewCoords == {Coord(0, 0), Coord(0, 1), Coord(1, 1)}

\* The record of an operation on the views: name, the number of the view in
\* views, its coordinates, the piece, the result, the matrices before it.
ViewOp(name) ==
    [op |-> name, ix |-> 0, co |-> Coord(0, 0), piece |-> "", ok |-> TRUE, err |-> "",
     before |-> store]

InitViews ==
    /\ phase = "playing"
    /\ size = ViewSize
    /\ data = BoardNewData(ViewSize)
    /\ turn = "Blue"
    /\ moves = <<>>
    /\ budget = ViewOps
    /\ store = <<BoardNewData(ViewSize)>>
    /\ views = <<>>
    /\ last = ViewOp("none")

\* After every operation Board.data is the matrix its pointer names.
Stored(st) ==
    /\ store' = st
    /\ data' = st[BoardMatrix(size).id]
    /\ budget' = budget - 1
    /\ UNCHANGED <<phase, size, turn, moves>>

\* let v = board.get(&co)
ViewGet(co) ==
    /\ Playing
    /\ \E got \in {BoardGetView(store, BoardMatrix(size), co)} :
         /\ views' = IF got.ok THEN Append(views, Unwrap(got.view)) ELSE views
         /\ last' = [ViewOp("view_get") EXCEPT !.co = co, !.ok = got.ok, !.err = got.err,
                                              !.ix = IF got.ok THEN Len(views) + 1 ELSE 0]
         /\ Stored(got.store)

\* let v = views[i].clone()
ViewClone(i) ==
    /\ Playing
    /\ views' = Append(views, PositionClone(views[i]))
    /\ last' = [ViewOp("view_clone") EXCEPT !.co = views[i].coords, !.ix = Len(views) + 1]
    /\ Stored(store)

\* let v = views[i].walker(dir).walk(length)
ViewWalk(i, dir, length) ==
    /\ Playing
    /\ \E walked \in {WalkerWalk(views[i], dir, length)} :
         /\ views' = IF IsSome(walked) THEN Append(views, Unwrap(walked)) ELSE views
         /\ last' = [ViewOp("view_walk") EXCEPT
                        !.co = IF IsSome(walked) THEN Unwrap(walked).coords ELSE views[i].coords,
                        !.ok = IsSome(walked),
                        !.ix = IF IsSome(walked) THEN Len(views) + 1 ELSE 0]
    /\ Stored(store)

\* views[i].place(piece): Ok hands the view back, Err drops it
ViewPlace(i, piece) ==
    /\ Playing
    /\ \E v \in {views[i]} :
       \E placed \in {PositionPlace(v.matrix.size, store[v.matrix.id], v.coords, piece)} :
         /\ views' = IF placed.ok THEN views ELSE RemoveAt(views, i)
         /\ last' = [ViewOp("view_place") EXCEPT !.co = v.coords, !.ix = i, !.piece = piece,
                                                !.ok = placed.ok, !.err = placed.err]
         /\ Stored([store EXCEPT ![v.matrix.id] = placed.data])

\* views[i].flip(): Ok hands the view back, Err drops it
ViewFlip(i) ==
    /\ Playing
    /\ \E v \in {views[i]} :
       \E flipped \in {PositionFlip(store[v.matrix.id], v.coords)} :
         /\ views' = IF flipped.ok THEN views ELSE RemoveAt(views, i)
         /\ last' = [ViewOp("view_flip") EXCEPT !.co = v.coords, !.ix = i,
                                               !.ok = flipped.ok, !.err = flipped.err]
         /\ Stored([store EXCEPT ![v.matrix.id] = flipped.data])

NextViews ==
    \/ \E co \in ViewCoords : ViewGet(co)
    \/ \E i \in 1..Len(views) : ViewClone(i)
    \/ \E i \in 1..Len(views), dir \in DirSet, length \in 1..ViewSteps : ViewWalk(i, dir, length)
    \/ \E i \in 1..Len(views), piece \in Pieces : ViewPlace(i, piece)
    \/ \E i \in 1..Len(views) : ViewFlip(i)

SpecViews == InitViews /\ [][NextViews]_vars

\* ------------------------------------------------------- the iterators
\* WalkerIterator::new(walkable, dir)
WalkerIterator(walkable, dir) == [walkable |-> walkable, dir |-> dir, ix |-> 1]

\* WalkerIterator::next that goes on from the item it yielded.
WalkerIteratorNext_FromLastItem(it) ==
    LET next == WalkerWalk(it.walkable, it.dir, it.ix) IN
    [item |-> next,
     it |-> [it EXCEPT !.ix = it.ix + 1,
                       !.walkable = IF IsSome(next) THEN Unwrap(next) ELSE it.walkable]]

\* WalkerIterator::next: the item returned and the iterator afterwards
WalkerIteratorNext(it) ==
    LET next == WalkerWalk(it.walkable, it.dir, it.ix) IN
    [item |-> next, it |-> [it EXCEPT !.ix = it.ix + 1]]

\* Coordinates::iterator(direction)
CoordinatesIterator(co, dir) == [coordinates |-> co, direction |-> dir, ix |-> 1]

\* CoordinatesIterator::next: let x = ..; self.ix = self.ix + 1; x
CoordinatesIteratorNext(it) ==
    [item |-> CoordsWalk(it.coordinates, it.direction, it.ix),
     it |-> [it EXCEPT !.ix = it.ix + 1]]

\* The record of an iterator: the origin and direction it was made with, the
\* iterator, the number n of calls of next made and the item of the last one.
Iter(name, origin, dir, it) ==
    [op |-> name, origin |-> origin, dir |-> dir, it |-> it, n |-> 0, item |-> None]

\* An iterator over the views from a view of a cell of its matrix, or over
\* the coordinates from a coordinate.
InitIter ==
    /\ phase = "called"
    /\ size = 0
    /\ data = BoardNewData(0)
    /\ turn = "Blue"
    /\ moves = <<>>
    /\ budget = MaxStep + 1
    /\ store = <<>>
    /\ views = <<>>
    /\ \E dir \in DirSet :
         \/ \E m \in Matrices, co \in InputCoords :
               /\ co.row < m.size /\ co.col < m.size
               /\ last = Iter("walker_iter", View(m, co), dir,
                              WalkerIterator(View(m, co), dir))
         \/ \E co \in InputCoords :
               last = Iter("coords_iter", co, dir, CoordinatesIterator(co, dir))

Iterated(r) ==
    /\ last' = [last EXCEPT !.it = r.it, !.n = last.n + 1, !.item = r.item]
    /\ budget' = budget - 1
    /\ UNCHANGED <<phase, size, data, turn, moves, store, views>>

\* iter.next() on a WalkerIterator<Position>
WalkerNext ==
    /\ last.op = "walker_iter" /\ budget > 0
    /\ \E r \in {WalkerIteratorNext(last.it)} : Iterated(r)

\* iter.next() on a CoordinatesIterator
CoordsNext ==
    /\ last.op = "coords_iter" /\ budget > 0
    /\ \E r \in {CoordinatesIteratorNext(last.it)} : Iterated(r)

NextIter == WalkerNext \/ CoordsNext

SpecIter == InitIter /\ [][NextIter]_vars

\* ------------------------------------------------ filling a board up
\* The record of an operation on the board, as Op, with the number of
\* placements that have succeeded since Board::new.
FillOp(name, n) ==
    [op |-> name, co |-> Coord(0, 0), piece |-> "", ok |-> TRUE, err |-> "",
     before |-> data, placed |-> n]

\* The state after Board::new(sz) for a size up to FillSize.
InitFill ==
    /\ phase = "playing"
    /\ \E sz \in 0..FillSize : size = BoardNew(sz).size /\ data = BoardNew(sz).data
    /\ turn = "Blue"
    /\ moves = <<>>
    /\ budget = 0
    /\ last = FillOp("new", 0)
    /\ store = <<>>
    /\ views = <<>>

\* board.get(&coords)
FillGet(co) ==
    /\ \E got \in {BoardGet(size, co)} :
         last' = [FillOp("get", last.placed) EXCEPT !.co = co, !.ok = got.ok, !.err = got.err]
    /\ UNCHANGED <<phase, size, data, turn, moves, budget, store, views>>

\* board.get(&coords)?.place(piece)
FillPlace(co, piece) ==
    /\ BoardGet(size, co).ok
    /\ \E placed \in {PositionPlace(size, data, co, piece)} :
         /\ data' = placed.data
         /\ last' = [FillOp("place", IF placed.ok THEN last.placed + 1 ELSE last.placed)
                        EXCEPT !.co = co, !.piece = piece, !.ok = placed.ok,
                               !.err = placed.err]
    /\ UNCHANGED <<phase, size, turn, moves, budget, store, views>>

\* board.get(&coords)?.flip()
FillFlip(co) ==
    /\ BoardGet(size, co).ok
    /\ \E flipped \in {PositionFlip(data, co)} :
         /\ data' = flipped.data
         /\ last' = [FillOp("flip", last.placed) EXCEPT !.co = co, !.ok = flipped.ok,
                                                       !.err = flipped.err]
    /\ UNCHANGED <<phase, size, turn, moves, budget, store, views>>

NextFill ==
    \/ \E co \in InputCoords : FillGet(co)
    \/ \E co \in InputCoords, piece \in Pieces : FillPlace(co, piece)
    \/ \E co \in InputCoords : FillFlip(co)

SpecFill == InitFill /\ [][NextFill]_vars

\* ================================================================== claims
\* What the claims speak of, stated without the walkers of the model.

\* The (row delta, col delta) of one step in a direction.
DeltaRow(dir) ==
    CASE dir \in {"Up", "UpRight", "UpLeft"} -> -1
      [] dir \in {"Down", "DownRight", "DownLeft"} -> 1
      [] OTHER -> 0

DeltaCol(dir) ==
    CASE dir \in {"UpLeft", "Left", "DownLeft"} -> -1
      [] dir \in {"UpRight", "Right", "DownRight"} -> 1
      [] OTHER -> 0

\* The cell k steps from co in direction dir (possibly off the board).
RayCell(co, dir, k) == Coord(co.row + k * DeltaRow(dir), co.col + k * DeltaCol(dir))

InGrid(sz, co) == co.row \in 0..(sz - 1) /\ co.col \in 0..(sz - 1)

\* The cell k steps away is on the board and holds the character ch in grid d.
RayHolds(sz, d, co, dir, k, ch) ==
    /\ InGrid(sz, RayCell(co, dir, k))
    /\ d[RayCell(co, dir, k).row][RayCell(co, dir, k).col] = ch

\* The length of the maximal run of opposite-colour cells from distance 1.
RunLength(sz, d, co, dir, piece) ==
    CHOOSE n \in 0..sz :
        /\ \A j \in 1..n : RayHolds(sz, d, co, dir, j, PieceToChar(NotPiece(piece)))
        /\ ~RayHolds(sz, d, co, dir, n + 1, PieceToChar(NotPiece(piece)))

\* The run is not empty and the cell right after it is on the board and holds piece.
Anchored(sz, d, co, dir, piece) ==
    /\ RunLength(sz, d, co, dir, piece) >= 1
    /\ RayHolds(sz, d, co, dir, RunLength(sz, d, co, dir, piece) + 1, PieceToChar(piece))

\* The cells a placement of piece at co captures in direction dir on grid d.
Captured(sz, d, co, dir, piece) ==
    IF Anchored(sz, d, co, dir, piece)
    THEN {RayCell(co, dir, k) : k \in 1..RunLength(sz, d, co, dir, piece)}
    ELSE {}

\* The last operation was a successful placement (through a view or through the game).
PlacedOk == last.op \in {"place", "game_place"} /\ last.ok

Changed(co) == data[co.row][co.col] # last.before[co.row][co.col]

\* C1: after a successful place(target, p), in each of the 8 directions the
\* cells of the ray that changed are exactly the maximal run of opposite-colour
\* cells starting next to the target, and only when that run is not empty and
\* is followed on the board by a cell holding p; each of them now holds p.
\* No other cell of the ray changed, the cells beyond the anchor included.
C1_FlipsExactlyAnchoredRun ==
    PlacedOk =>
        \A dir \in DirSet : \A k \in 1..size :
            InGrid(size, RayCell(last.co, dir, k)) =>
                /\ Changed(RayCell(last.co, dir, k))
                     <=> RayCell(last.co, dir, k)
                            \in Captured(size, last.before, last.co, dir, last.piece)
                /\ Changed(RayCell(last.co, dir, k))
                     => data[RayCell(last.co, dir, k).row][RayCell(last.co, dir, k).col]
                          = PieceToChar(last.piece)

\* C1 witness: a placement captured a run behind whose anchor lies a further
\* cell of the opposite colour, which it left alone, and in another direction
\* it met a run that no cell of its colour follows.
C1_Witness ==
    /\ PlacedOk
    /\ \E dir \in DirSet :
          /\ Anchored(size, last.before, last.co, dir, last.piece)
          /\ RayHolds(size, data, last.co, dir,
                      RunLength(size, last.before, last.co, dir, last.piece) + 2,
                      PieceToChar(NotPiece(last.piece)))
    /\ \E dir \in DirSet :
          /\ RunLength(size, last.before, last.co, dir, last.piece) >= 1
          /\ ~Anchored(size, last.before, last.co, dir, last.piece)

\* The cells a placement of piece at co captures on grid d, all directions.
CapturedAll(sz, d, co, piece) ==
    UNION {Captured(sz, d, co, dir, piece) : dir \in DirSet}

\* The grid d with piece written into the target co and into the cells of cap.
SnapshotPlace(sz, d, co, piece, cap) ==
    [r \in 0..(sz - 1) |->
        [c \in 0..(sz - 1) |->
            IF Coord(r, c) = co \/ Coord(r, c) \in cap
            THEN PieceToChar(piece)
            ELSE d[r][c]]]

\* Orders of the 8 directions: the rotations of the declaration order and
\* the rotations of its reverse.
Rotation(k) == [i \in 1..Len(Dirs) |-> Dirs[((i + k - 1) % Len(Dirs)) + 1]]

Reversed(order) == [i \in 1..Len(order) |-> order[Len(order) + 1 - i]]

Orders == {Rotation(k) : k \in 0..(Len(Dirs) - 1)}
             \cup {Reversed(Rotation(k)) : k \in 0..(Len(Dirs) - 1)}

\* C2: after a successful place the grid is the one obtained by scanning all
\* 8 directions on the grid as it was before the placement and then applying
\* the flips and the target write; processing the directions in another order
\* gives the same grid; and the scan of one direction finds, after the flips
\* of any other direction, the run and the anchor it finds before them.
C2_ScansSeePrePlacementBoard ==
    PlacedOk =>
        /\ \A cap \in {CapturedAll(size, last.before, last.co, last.piece)} :
              data = SnapshotPlace(size, last.before, last.co, last.piece, cap)
        /\ \A order \in Orders :
              Write(SolveFrom(size, last.before, <<>>, last.co, last.piece, order, 1).data,
                    last.co, PieceToChar(last.piece)) = data
        /\ \A alone \in {[d \in DirSet |->
                            SolveDir(size, last.before, last.co, d, last.piece)]} :
              \A d1 \in DirSet : \A d2 \in DirSet \ {d1} :
                 SolveDir(size, alone[d1].data, last.co, d2, last.piece).flips
                    = alone[d2].flips

\* C2 witness: one placement captured runs in two directions.
C2_Witness ==
    /\ PlacedOk
    /\ \E d1 \in DirSet : \E d2 \in DirSet \ {d1} :
          /\ Captured(size, last.before, last.co, d1, last.piece) # {}
          /\ Captured(size, last.before, last.co, d2, last.piece) # {}

\* The cells of the grid, and the cells other than co.
Cells == {Coord(r, c) : r \in 0..(size - 1), c \in 0..(size - 1)}

At(d, co) == d[co.row][co.col]

\* C3: place on a cell that is not Empty fails with PositionAlreadyOccupied
\* and leaves every cell of the grid as it was, the target included.
C3_OccupiedTargetRejected ==
    (last.op = "place" /\ At(last.before, last.co) # " ") =>
        /\ ~last.ok
        /\ last.err = "PositionAlreadyOccupied"
        /\ \A co \in Cells : At(data, co) = At(last.before, co)

\* C3 witness: place on (3,3) of a freshly built grid of size 8 was rejected.
C3_Witness ==
    /\ last.op = "place" /\ last.co = Coord(3, 3) /\ size = 8
    /\ Len(moves) = 0 /\ budget = MaxOps - 1
    /\ \A co \in Cells :
          At(last.before, co) # " " <=> co \in {Coord(3, 3), Coord(3, 4), Coord(4, 3), Coord(4, 4)}
    /\ ~last.ok /\ last.err = "PositionAlreadyOccupied"

\* C4: place on an Empty cell succeeds and the target then holds the colour
\* placed; when no direction yields a capture no other cell changes.
C4_EmptyTargetAlwaysAccepted ==
    (last.op = "place" /\ At(last.before, last.co) = " ") =>
        /\ last.ok
        /\ At(data, last.co) = PieceToChar(last.piece)
        /\ CapturedAll(size, last.before, last.co, last.piece) = {}
             => \A co \in Cells \ {last.co} : At(data, co) = At(last.before, co)

\* C4 witness: a placement that captured nothing, next to a single piece of
\* the opposite colour followed by an Empty cell in one direction and next to
\* a single piece of the opposite colour followed by the board edge in another.
C4_Witness ==
    /\ last.op = "place" /\ last.ok
    /\ CapturedAll(size, last.before, last.co, last.piece) = {}
    /\ \E dir \in DirSet :
          /\ RunLength(size, last.before, last.co, dir, last.piece) = 1
          /\ RayHolds(size, last.before, last.co, dir, 2, " ")
    /\ \E dir \in DirSet :
          /\ RunLength(size, last.before, last.co, dir, last.piece) = 1
          /\ ~InGrid(size, RayCell(last.co, dir, 2))

\* C5: flip on an Empty cell fails with FlipError and leaves the grid as it
\* was; flip on an occupied cell succeeds, stores the opposite colour in that
\* cell and changes no other cell, and a second flip of the cell restores it.
C5_FlipContract ==
    last.op = "flip" =>
        IF At(last.before, last.co) = " "
        THEN /\ ~last.ok /\ last.err = "FlipError"
             /\ \A co \in Cells : At(data, co) = At(last.before, co)
        ELSE /\ last.ok
             /\ At(last.before, last.co) = "B" => At(data, last.co) = "R"
             /\ At(last.before, last.co) = "R" => At(data, last.co) = "B"
             /\ \A co \in Cells \ {last.co} : At(data, co) = At(last.before, co)
             /\ PositionFlip(data, last.co).ok
             /\ PositionFlip(data, last.co).data = last.before

\* C5 witness: a flip of an occupied cell right after a flip of the same cell.
C5_Witness ==
    /\ last.op = "flip" /\ last.ok
    /\ budget = MaxOps - 2
    /\ data = BoardNewData(size)
    /\ At(data, last.co) = "B"

\* C6: Board::new fails with InvalidBoardSize for every size that is <= 4 or
\* odd and succeeds for every even size > 4, so every grid that exists has an
\* even size greater than 4.
C6_NewValidatesSize ==
    /\ last.op = "new" =>
          IF last.co.row <= 4 \/ last.co.row % 2 = 1
          THEN ~last.ok /\ last.err = "InvalidBoardSize"
          ELSE last.ok
    /\ phase = "playing" => size > 4 /\ size % 2 = 0

\* C7: a freshly constructed grid of size s is s x s; with half = s / 2 it
\* holds Blue at (half,half) and (half-1,half-1), Red at (half-1,half) and
\* (half,half-1), Empty in every other cell; from size 2 on these are four
\* cells of the grid; for s = 8 they are (3,3),(4,4) and (3,4),(4,3), and the
\* other 60 cells are Empty.
C7_FreshGridLayout ==
    (last.op = "new" /\ last.ok) =>
        LET half == size \div 2 IN
        /\ size = last.co.row
        /\ DOMAIN data = 0..(size - 1)
        /\ \A r \in 0..(size - 1) : DOMAIN data[r] = 0..(size - 1)
        /\ \A co \in Cells :
              At(data, co) =
                 IF co \in {Coord(half, half), Coord(half - 1, half - 1)} THEN "B"
                 ELSE IF co \in {Coord(half - 1, half), Coord(half, half - 1)} THEN "R"
                 ELSE " "
        /\ size >= 2 => Cardinality({co \in Cells : At(data, co) # " "}) = 4
        /\ size = 8 =>
              /\ data[3][3] = "B" /\ data[4][4] = "B"
              /\ data[3][4] = "R" /\ data[4][3] = "R"
              /\ Cardinality({co \in Cells : At(data, co) = " "}) = 60

\* C7 witness: a fresh grid of size 8.
C7_Witness ==
    last.op = "new" /\ last.ok /\ size = 8 /\ data[3][3] = "B" /\ data[3][4] = "R"

\* C8: get fails with InvalidPosition exactly when the row or the column is
\* not below the size; otherwise it returns the view at exactly that
\* coordinate; it changes no cell of the grid.
C8_GetContract ==
    last.op = "get" =>
        /\ ~last.ok <=> (last.co.row >= size \/ last.co.col >= size)
        /\ ~last.ok => last.err = "InvalidPosition" /\ last.position = None
        /\ last.ok => last.position = Some(Position(last.co))
        /\ data = last.before

\* C8 witness: a get of an off-diagonal cell of the board succeeded, on a
\* board that a get one column further would miss.
C8_Witness ==
    /\ last.op = "get" /\ last.ok
    /\ last.co.row # last.co.col
    /\ last.co.col = size - 1

\* C8 witness of the failure: a get with the row on the board and the column off it.
C8_WitnessInvalid ==
    last.op = "get" /\ ~last.ok /\ last.co.row < size /\ last.co.col = size

\* C9: after every successful Game::place the cell at the parsed coordinate
\* holds the colour whose turn it was, the turn is the opposite colour and
\* exactly one move (that colour, that coordinate) was appended to the
\* history; the colours of the history strictly alternate.
C9_TurnAlternates ==
    /\ (last.op = "game_place" /\ last.ok) =>
          /\ \E co \in InputCoords : last.text = CoordsToString(co) /\ last.co = co
          /\ At(data, last.co) = PieceToChar(last.turnBefore)
          /\ turn # last.turnBefore
          /\ turn \in Pieces
          /\ moves = Append(last.movesBefore,
                            [piece |-> last.turnBefore, coords |-> last.co])
    /\ \A i \in 1..(Len(moves) - 1) : moves[i].piece # moves[i + 1].piece

\* C9 witness: the second successful move of a game.
C9_Witness ==
    last.op = "game_place" /\ last.ok /\ Len(moves) = 2

Returned(name) == phase = "returned" /\ last.op = name

\* The letters of a text are capitals, and read as a numeral of the bijective
\* base 26 (A = 1 .. Z = 26, most significant first) they are worth n.
RECURSIVE Pow26(_)
Pow26(k) == IF k = 0 THEN 1 ELSE 26 * Pow26(k - 1)

RECURSIVE LettersWorth(_, _)
LettersWorth(t, k) ==
    IF k > Len(t) THEN 0
    ELSE (CHOOSE v \in 1..26 : Upper[v] = t[k]) * Pow26(Len(t) - k) + LettersWorth(t, k + 1)

IsRowText(t, n) ==
    /\ Len(t) >= 1
    /\ \A i \in 1..Len(t) : t[i] \in UpperSet
    /\ LettersWorth(t, 1) = n + 1

\* The digits of a text read as a decimal numeral are worth n.
RECURSIVE DigitsWorth(_, _)
DigitsWorth(t, k) ==
    IF k = 0 THEN 0
    ELSE 10 * DigitsWorth(t, k - 1) + ((CHOOSE v \in 1..10 : Digits[v] = t[k]) - 1)

IsColText(t, n) ==
    /\ Len(t) >= 1
    /\ \A i \in 1..Len(t) : t[i] \in DigitSet
    /\ t[1] # "0"
    /\ DigitsWorth(t, Len(t)) = n

\* C11: format renders a coordinate as its row in capital letters of the
\* bijective base 26, a colon and col + 1 in decimal ((0,0) as "A:1", (1,50)
\* as "B:51", (26,25) as "AA:26"), and parse of that text returns exactly the
\* coordinate: parse(format(c)) = c.
C11_RoundTrip ==
    /\ Returned("to_string") =>
          /\ \E i \in 1..Len(Unwrap(last.out)) :
                /\ Unwrap(last.out)[i] = ":"
                /\ IsRowText(SubSeq(Unwrap(last.out), 1, i - 1), last.co.row)
                /\ IsColText(SubSeq(Unwrap(last.out), i + 1, Len(Unwrap(last.out))),
                             last.co.col + 1)
          /\ \A parsed \in CoordsFromStr(Unwrap(last.out)) :
                parsed.kind = "Ok" /\ parsed.coords = last.co
          /\ last.co = Coord(0, 0) => Unwrap(last.out) = <<"A", ":", "1">>
          /\ last.co = Coord(1, 50) => Unwrap(last.out) = <<"B", ":", "5", "1">>
          /\ last.co = Coord(26, 25) => Unwrap(last.out) = <<"A", "A", ":", "2", "6">>
    /\ Returned("from_str") =>
          \A c \in TextCoords :
             last.text = CoordsToString(c) => last.kind = "Ok" /\ last.out = Some(c)

\* C11 witness: parse of "AA:26", the format of (26,25), returned (26,25).
C11_Witness ==
    /\ Returned("from_str")
    /\ last.text = <<"A", "A", ":", "2", "6">>
    /\ last.text = CoordsToString(Coord(26, 25))
    /\ last.out = Some(Coord(26, 25))

\* C12: the row letters are a bijection between the rows 0, 1, 2, ... and the
\* non-empty texts of capital letters: to_str(n) is the numeral of n + 1 in
\* the bijective base 26 (0 is "A", 1 is "B", 25 is "Z", 26 is "AA") and parse
\* of it returns n; parse of a text of capitals returns the worth of the
\* numeral minus 1 ("AA" is 26), of which to_str is that text again.
C12_RowLettersBijective ==
    /\ Returned("row_to_str") =>
          /\ IsRowText(Unwrap(last.out), last.co.row)
          /\ RowParse(Unwrap(last.out)).ok
          /\ RowParse(Unwrap(last.out)).row = last.co.row
          /\ last.co.row = 0 => Unwrap(last.out) = <<"A">>
          /\ last.co.row = 1 => Unwrap(last.out) = <<"B">>
          /\ last.co.row = 25 => Unwrap(last.out) = <<"Z">>
          /\ last.co.row = 26 => Unwrap(last.out) = <<"A", "A">>
    /\ (Returned("row_parse") /\ last.text \in UpperTexts) =>
          /\ last.kind = "Ok"
          /\ Unwrap(last.out) >= 0
          /\ Unwrap(last.out) = LettersWorth(last.text, 1) - 1
          /\ RowToStr(Unwrap(last.out)) = last.text
          /\ last.text = <<"A", "A">> => Unwrap(last.out) = 26

\* C12 witness: to_str of a row of three letters, 702 = "AAA".
C12_Witness ==
    /\ Returned("row_to_str")
    /\ last.co.row = 702
    /\ last.out = Some(<<"A", "A", "A">>)

\* C12 witness of the other direction: parse("AA") returned 26.
C12_WitnessParse ==
    Returned("row_parse") /\ last.text = <<"A", "A">> /\ last.out = Some(26)

\* The call of name is over: it returned or it panicked.
Done(name) == phase \in {"returned", "panicked"} /\ last.op = name

ToUpper(str) ==
    [i \in 1..Len(str) |->
        IF str[i] \in LowerSet THEN Upper[LetterDigit(str[i])] ELSE str[i]]

\* The text t is letters of either case, a colon at index i and ASCII digits.
IsCoordsForm(t, i) ==
    /\ i \in 2..(Len(t) - 1)
    /\ t[i] = ":"
    /\ \A j \in 1..(i - 1) : t[j] \in UpperSet \cup LowerSet
    /\ \A j \in (i + 1)..Len(t) : t[j] \in DigitSet

\* The digits after index i are not all zeros: the column number is >= 1.
ColumnAtLeastOne(t, i) == \E j \in (i + 1)..Len(t) : t[j] # "0"

\* C13: parse accepts every text of letters of either case, a colon and a
\* decimal number >= 1, and returns the row the letters are worth read as
\* capitals and the number minus 1: a text with small letters parses to the
\* coordinate of its form in capitals; format writes capitals only.
C13_ParseIgnoresCase ==
    /\ Done("from_str") =>
          \A i \in 1..Len(last.text) :
             (IsCoordsForm(last.text, i) /\ ColumnAtLeastOne(last.text, i)) =>
                /\ last.kind = "Ok"
                /\ Unwrap(last.out).row
                      = LettersWorth(ToUpper(SubSeq(last.text, 1, i - 1)), 1) - 1
                /\ Unwrap(last.out).col
                      = DigitsWorth(SubSeq(last.text, i + 1, Len(last.text)),
                                    Len(last.text) - i) - 1
                /\ \A upper \in CoordsFromStr(ToUpper(last.text)) :
                      upper.kind = "Ok" /\ upper.coords = Unwrap(last.out)
    /\ Done("to_string") =>
          \A j \in 1..Len(Unwrap(last.out)) : Unwrap(last.out)[j] \notin LowerSet

\* C14: parse of a text that is not letters, a colon and digits (no letters
\* before the colon, no colon, a space in its place, a column that is no
\* number, characters before or after) fails with ParseError carrying the
\* text; the decoding of a row alone fails with ParseError carrying the text
\* when the text is empty or holds a character that is no letter.
C14_MalformedTextIsParseError ==
    /\ (Done("from_str") /\ ~\E i \in 1..Len(last.text) : IsCoordsForm(last.text, i)) =>
          /\ last.kind = "Err"
          /\ last.err = "ParseError"
          /\ last.arg = last.text
    /\ (Done("row_parse")
          /\ (last.text = <<>>
                \/ \E j \in 1..Len(last.text) : last.text[j] \notin UpperSet \cup LowerSet)) =>
          /\ last.kind = "Err"
          /\ last.err = "ParseError"
          /\ last.arg = last.text

\* C15: parse of a text whose column number is 0 ("A:0") returns a failure:
\* it returns no coordinate, the stored column is never the number 0 minus 1,
\* and the process goes on; for every text parse returns a coordinate or a
\* failure.
C15_ColumnZeroIsFailure ==
    Done("from_str") =>
       /\ phase = "returned"
       /\ last.kind \in {"Ok", "Err"}
       /\ \A i \in 1..Len(last.text) :
             (IsCoordsForm(last.text, i) /\ ~ColumnAtLeastOne(last.text, i)) =>
                last.kind = "Err" /\ last.out = None
       /\ last.kind = "Ok" =>
             \E i \in 1..Len(last.text) :
                /\ last.text[i] = ":"
                /\ ColumnAtLeastOne(last.text, i)
                /\ Unwrap(last.out).col + 1
                      = DigitsWorth(SubSeq(last.text, i + 1, Len(last.text)),
                                    Len(last.text) - i)

\* C16: the call number k of the coordinate walker returns the origin moved
\* by k times the (row, col) delta of the direction (Up -1,0; UpRight -1,+1;
\* Right 0,+1; DownRight +1,+1; Down +1,0; DownLeft +1,-1; Left 0,-1; UpLeft
\* -1,-1) and nothing exactly when that has a negative row or column: row < k
\* for Up and UpRight, col < k for DownLeft and Left, row < k or col < k for
\* UpLeft, never for Right, DownRight and Down.
C16_CoordsWalkerTable ==
    Returned("coords_next") =>
       /\ last.ix >= 1
       /\ IF RayCell(last.co, last.dir, last.ix).row >= 0
             /\ RayCell(last.co, last.dir, last.ix).col >= 0
          THEN last.out = Some(RayCell(last.co, last.dir, last.ix))
          ELSE last.out = None
       /\ last.out = None <=>
             \/ last.dir \in {"Up", "UpRight"} /\ last.co.row < last.ix
             \/ last.dir \in {"DownLeft", "Left"} /\ last.co.col < last.ix
             \/ last.dir = "UpLeft" /\ (last.co.row < last.ix \/ last.co.col < last.ix)

\* C16 witness: UpLeft from (3,1) has a first step, (2,0), and no second one,
\* for the column alone.
C16_Witness ==
    /\ Returned("coords_next")
    /\ last.dir = "UpLeft" /\ last.co = Coord(3, 1) /\ last.ix = 2
    /\ last.out = None
    /\ CoordsWalk(last.co, last.dir, 1) = Some(Coord(2, 0))

\* C17: the step k of the walker of a view on a grid of size s returns a view
\* exactly when the coordinate walker returns a coordinate with row < s and
\* col < s; the view is at that coordinate, the cell k steps along the ray,
\* and of the same grid; no step returns a view after a step returned none, so
\* the views up to the first absent step are the cells of the ray on the board.
C17_ViewWalkerOnBoardRay ==
    Returned("walk") =>
       \A v \in {Unwrap(last.view)} : \A c \in {CoordsWalk(v.coords, last.dir, last.ix)} :
          /\ IsSome(last.out) <=>
                (IsSome(c) /\ Unwrap(c).row < v.matrix.size /\ Unwrap(c).col < v.matrix.size)
          /\ IsSome(last.out) <=> InGrid(v.matrix.size, RayCell(v.coords, last.dir, last.ix))
          /\ IsSome(last.out) =>
                /\ Unwrap(last.out).coords = Unwrap(c)
                /\ Unwrap(last.out).coords = RayCell(v.coords, last.dir, last.ix)
                /\ Unwrap(last.out).matrix = v.matrix
          /\ IsSome(last.out) <=>
                \A j \in 1..last.ix : IsSome(WalkerWalk(v, last.dir, j))

\* C17 witness: on a grid of size 3 the second step to the right of (1,1) is
\* a coordinate, (1,3), and no view.
C17_Witness ==
    /\ Returned("walk")
    /\ Unwrap(last.view) = View(Matrix(2, 3), Coord(1, 1))
    /\ last.dir = "Right" /\ last.ix = 2
    /\ CoordsWalk(Coord(1, 1), "Right", 2) = Some(Coord(1, 3))
    /\ last.out = None
    /\ WalkerWalk(Unwrap(last.view), "Right", 1) = Some(View(Matrix(2, 3), Coord(1, 2)))

\* -------------------------------------------------- claims about the game
\* C18: on a freshly built grid of size 8, "D:3" is (3,2) and placing Red
\* there succeeds and flips exactly the cell (3,3) from Blue to Red, the run
\* to the right that Red at (3,4) anchors; afterwards (3,2), (3,3), (3,4) and
\* (4,3) are Red, (4,4) is Blue and every other cell is Empty.
C18_FreshBoardD3 ==
    /\ CoordsFromStr(<<"D", ":", "3">>) = {Parsed("Ok", "", <<"D", ":", "3">>, Coord(3, 2))}
    /\ (/\ last.op \in {"place", "game_place"}
        /\ size = 8 /\ budget = MaxOps - 1
        /\ last.co = Coord(3, 2) /\ last.piece = "Red") =>
          /\ last.ok
          /\ \A co \in Cells :
                At(data, co) =
                   IF co \in {Coord(3, 2), Coord(3, 3), Coord(3, 4), Coord(4, 3)} THEN "R"
                   ELSE IF co = Coord(4, 4) THEN "B"
                   ELSE " "
          /\ {co \in Cells : At(data, co) # At(last.before, co)} = {Coord(3, 2), Coord(3, 3)}
          /\ At(last.before, Coord(3, 2)) = " "
          /\ At(last.before, Coord(3, 3)) = "B"
          /\ last.op = "game_place" =>
                last.text = <<"D", ":", "3">> /\ last.resume.flips = <<Coord(3, 3)>>

\* C18 witness: the first move of a game of size 8, Red at "D:3".
C18_Witness ==
    /\ last.op = "game_place" /\ last.text = <<"D", ":", "3">> /\ last.ok
    /\ size = 8 /\ budget = MaxOps - 1 /\ last.piece = "Red"
    /\ At(last.before, Coord(3, 3)) = "B" /\ At(data, Coord(3, 3)) = "R"
    /\ At(data, Coord(3, 2)) = "R"

\* ------------------------------------------- claims about the cell codes
\* C19: the decoding of a cell character returns and does not panic: a
\* character other than ' ', 'B' and 'R' gives the failure ParseError, ' '
\* gives Empty, 'B' Blue and 'R' Red; the encoding of a cell followed by the
\* decoding gives the cell back.
C19_CellDecodingNeverPanics ==
    /\ (Done("wrap_try_from") \/ Done("piece_from")) =>
          /\ phase = "returned"
          /\ last.text[1] \notin {" ", "B", "R"} =>
                last.kind = "Err" /\ last.err = "ParseError" /\ last.out = None
          /\ last.text[1] = " " => last.kind = "Ok" /\ last.out = Some("None")
          /\ last.text[1] = "B" => last.kind = "Ok" /\ last.out = Some("Blue")
          /\ last.text[1] = "R" => last.kind = "Ok" /\ last.out = Some("Red")
    /\ Done("wrap_try_into") =>
          /\ Unwrap(last.out) \in {" ", "B", "R"}
          /\ CharToWrap(Unwrap(last.out)) = last.arg[1]
    /\ Done("piece_into") =>
          /\ Unwrap(last.out) \in {"B", "R"}
          /\ CharToWrap(Unwrap(last.out)) = last.arg[1]
          /\ CharToPiece(Unwrap(last.out)).kind = "Ok"
          /\ CharToPiece(Unwrap(last.out)).piece = last.arg[1]

\* ---------------------------------------------- claims about the cells
\* The step changed the cell co in one of the two ways a cell changes: from
\* Empty to the colour placed, by a successful place on co, or from a colour
\* to the opposite colour, by a successful flip of co or as a cell captured
\* by a successful place on another cell.
CellStep(co) ==
    \/ /\ At(data, co) = " "
       /\ last'.op \in {"place", "game_place"} /\ last'.ok /\ last'.co = co
       /\ At(data', co) = PieceToChar(last'.piece)
    \/ /\ At(data, co) = "B" /\ At(data', co) = "R"
       /\ \/ last'.op = "flip" /\ last'.ok /\ last'.co = co
          \/ /\ last'.op \in {"place", "game_place"} /\ last'.ok
             /\ last'.co # co /\ last'.piece = "Red"
    \/ /\ At(data, co) = "R" /\ At(data', co) = "B"
       /\ \/ last'.op = "flip" /\ last'.ok /\ last'.co = co
          \/ /\ last'.op \in {"place", "game_place"} /\ last'.ok
             /\ last'.co # co /\ last'.piece = "Blue"

\* C20: over every sequence of get, place, flip and Game::place, successful
\* or failed, the grid keeps its size and a cell changes only from Empty to
\* the colour a successful place puts on it, or from a colour to the opposite
\* one through a flip or a capture; a get and a failed operation change no
\* cell; no cell that holds a colour becomes Empty.
C20_CellStateMachine ==
    [][phase = "playing" =>
          /\ size' = size
          /\ \A co \in Cells : At(data', co) # At(data, co) => CellStep(co)
          /\ \A co \in Cells : At(data, co) # " " => At(data', co) # " "
          /\ (last'.op = "get" \/ ~last'.ok) => data' = data]_vars

\* C20 witness: a cell that was Empty on the fresh grid was placed on and
\* has just been flipped.
C20_Witness ==
    /\ last.op = "flip" /\ last.ok
    /\ budget = MaxOps - 2
    /\ At(BoardNewData(size), last.co) = " "
    /\ At(last.before, last.co) \in {"B", "R"}
    /\ At(data, last.co) \in {"B", "R"} \ {At(last.before, last.co)}

\* ------------------------------------------ claims about the failed move
\* C21: a Game::place that fails returns an error to its caller (the text
\* did not parse, the coordinate is off the board, the cell is occupied) and
\* the game goes on as it was: the same colour is to move, the history has
\* no new move and no cell of the grid changed.
C21_FailedMoveChangesNothing ==
    (last.op = "game_place" /\ ~last.ok) =>
       /\ phase = "playing"
       /\ last.err \in {"ParseError", "InvalidPosition", "PositionAlreadyOccupied"}
       /\ turn = last.turnBefore
       /\ moves = last.movesBefore
       /\ data = last.before

\* ------------------------------------------------ claims about the views
\* The cell a view reads: the character of its matrix at its coordinates.
Seen(view) == PositionPiece(store[view.matrix.id], view.coords)

\* C22: the views of the board, got from get, from a clone or from a walker,
\* share its storage: every view held reads at its coordinate what the board
\* holds there; after a place or a flip through one view
\* every view held of that coordinate, and a view that get hands out
\* afterwards, reads the new colour, a flip through it succeeds and a place
\* through it is rejected as occupied.
C22_ViewsShareStorage ==
    /\ \A j \in 1..Len(views) :
          Seen(views[j]) = PositionPiece(data, views[j].coords)
    /\ (last.op \in {"view_place", "view_flip"} /\ last.ok) =>
          \A colour \in {IF last.op = "view_place" THEN last.piece
                         ELSE NotPiece(PositionPiece(last.before[BoardMatrixId], last.co))} :
          \A held \in {views[j] : j \in 1..Len(views)}
                         \cup {Unwrap(BoardGetView(store, BoardMatrix(size), last.co).view)} :
             held.coords = last.co =>
                /\ Seen(held) = colour
                /\ PositionFlip(store[held.matrix.id], held.coords).ok
                /\ PositionPlace(size, store[held.matrix.id], held.coords, colour).err
                      = "PositionAlreadyOccupied"

\* C22 witness: of two views of A:1, a place through the first succeeded and
\* then a flip through the second.
C22_Witness ==
    /\ last.op = "view_flip" /\ last.ok /\ last.ix = 2 /\ last.co = Coord(0, 0)
    /\ Len(views) = 2 /\ views[1].coords = Coord(0, 0) /\ views[2].coords = Coord(0, 0)
    /\ At(BoardNewData(size), Coord(0, 0)) = " "
    /\ At(last.before[BoardMatrixId], Coord(0, 0)) \in {"B", "R"}
    /\ Seen(views[1]) = NotPiece(PositionPiece(last.before[BoardMatrixId], Coord(0, 0)))

\* -------------------------------------------- claims about the iterators
\* C23: the call number n of next on the adapter returns step(n) from the
\* origin the adapter was made with, the views along the ray for the walker
\* of views and the coordinates for the walker of coordinates; the counter
\* grows by one per call; the call returns nothing exactly when step(n) is
\* absent, and then step(j) is absent for every j > n, so no cell of the
\* board lies behind the first absent step.
C23_AdapterYieldsStepN ==
    /\ last.it.ix = last.n + 1
    /\ (last.op = "walker_iter" /\ last.n >= 1) =>
          /\ last.item = WalkerWalk(last.origin, last.dir, last.n)
          /\ IF InGrid(last.origin.matrix.size, RayCell(last.origin.coords, last.dir, last.n))
             THEN last.item = Some(View(last.origin.matrix,
                                        RayCell(last.origin.coords, last.dir, last.n)))
             ELSE last.item = None
          /\ last.item = None =>
                \A j \in last.n..(MaxStep + 2) :
                   WalkerWalk(last.origin, last.dir, j) = None
    /\ (last.op = "coords_iter" /\ last.n >= 1) =>
          /\ last.item = CoordsWalk(last.origin, last.dir, last.n)
          /\ IF RayCell(last.origin, last.dir, last.n).row >= 0
                /\ RayCell(last.origin, last.dir, last.n).col >= 0
             THEN last.item = Some(RayCell(last.origin, last.dir, last.n))
             ELSE last.item = None
          /\ last.item = None =>
                \A j \in last.n..(MaxStep + 2) :
                   CoordsWalk(last.origin, last.dir, j) = None

\* C23 witness: the third call on the iterator of views to the right of
\* (1,0) on a grid of size 4 returned the view of (1,3), and the fourth
\* call returned nothing.
C23_Witness ==
    /\ last.op = "walker_iter" /\ last.n = 4
    /\ last.origin = View(Matrix(2, 4), Coord(1, 0)) /\ last.dir = "Right"
    /\ last.item = None
    /\ WalkerWalk(last.origin, last.dir, 3) = Some(View(Matrix(2, 4), Coord(1, 3)))

\* The direction subtracts from the row, from the column.
SubtractsRow(dir) == dir \in {"Up", "UpRight", "UpLeft"}

SubtractsCol(dir) == dir \in {"DownLeft", "Left", "UpLeft"}

\* C24: no subtraction on a coordinate goes below zero. The walker of
\* coordinates returns row - k (col - k) only from a row (column) >= k, and
\* returns nothing exactly when a component it subtracts from is smaller
\* than k; the decoding of a row of letters subtracts 1 from a value >= 1 and
\* no call ends in the panic of a subtraction.
C24_NoSubtractionUnderflows ==
    /\ Done("coords_next") =>
          /\ phase = "returned"
          /\ IsSome(last.out) <=>
                /\ SubtractsRow(last.dir) => last.co.row >= last.ix
                /\ SubtractsCol(last.dir) => last.co.col >= last.ix
          /\ IsSome(last.out) =>
                /\ Unwrap(last.out).row >= 0 /\ Unwrap(last.out).col >= 0
                /\ SubtractsRow(last.dir) => Unwrap(last.out).row + last.ix = last.co.row
                /\ SubtractsCol(last.dir) => Unwrap(last.out).col + last.ix = last.co.col
    /\ Done("row_parse") =>
          /\ last.err # "attempt to subtract with overflow"
          /\ last.kind = "Ok" =>
                /\ Len(last.text) >= 1
                /\ RowAccumulate(last.text, 0) >= 1
                /\ Unwrap(last.out) + 1 = RowAccumulate(last.text, 0)

\* ------------------------------------------- claims about filling a board
\* The number of occupied cells of the grid d of the board.
OccupiedCount(d) == Cardinality({co \in Cells : Occupied(d, co)})

\* C25: a successful place adds exactly one occupied cell, and a flip, a get
\* and every failed operation add none; after n successful placements on a
\* fresh grid of size s exactly 4 + n cells are occupied, so n is at most
\* s * s - 4, and on a full grid every place fails with
\* PositionAlreadyOccupied.
C25_OccupancyCount ==
    /\ OccupiedCount(data) = OccupiedCount(last.before)
                               + (IF last.op = "place" /\ last.ok THEN 1 ELSE 0)
    /\ OccupiedCount(data) = 4 + last.placed
    /\ last.placed <= size * size - 4
    /\ OccupiedCount(data) = size * size =>
          \A co \in Cells : \A piece \in Pieces :
             /\ ~PositionPlace(size, data, co, piece).ok
             /\ PositionPlace(size, data, co, piece).err = "PositionAlreadyOccupied"
    /\ (last.op = "place" /\ OccupiedCount(last.before) = size * size) =>
          ~last.ok /\ last.err = "PositionAlreadyOccupied"

\* ------------------------------------------- claims about the frame of place
\* The number of cells of the grid d that hold the character ch.
CountOf(d, ch) == Cardinality({co \in Cells : At(d, co) = ch})

\* The cell co lies on a ray from the target, strictly between the target and
\* a cell that held piece before the placement.
BeforeAnchor(co, target, piece) ==
    \E dir \in DirSet : \E a \in 2..size : \E k \in 1..(a - 1) :
        /\ co = RayCell(target, dir, k)
        /\ RayHolds(size, last.before, target, dir, a, PieceToChar(piece))

\* The cells other than the target that the last operation changed.
Flipped == {co \in Cells \ {last.co} : Changed(co)}

\* C26: a successful place(target, p) changes the target and otherwise only
\* cells on one of the 8 rays from the target strictly between the target
\* and a cell holding p; every changed cell ends holding p; no cell other
\* than the target that held p or was Empty changes; the number of cells
\* holding p grows by 1 + the number of flips and the number of cells holding
\* the opposite colour shrinks by the number of flips.
C26_FrameOfPlace ==
    PlacedOk =>
        /\ Changed(last.co)
        /\ \A co \in Cells :
              /\ Changed(co) => At(data, co) = PieceToChar(last.piece)
              /\ (Changed(co) /\ co # last.co) => BeforeAnchor(co, last.co, last.piece)
              /\ (co # last.co /\ At(last.before, co) \in {" ", PieceToChar(last.piece)})
                    => ~Changed(co)
        /\ CountOf(data, PieceToChar(last.piece))
              = CountOf(last.before, PieceToChar(last.piece)) + 1 + Cardinality(Flipped)
        /\ CountOf(data, PieceToChar(NotPiece(last.piece))) + Cardinality(Flipped)
              = CountOf(last.before, PieceToChar(NotPiece(last.piece)))
        /\ CountOf(data, " ") + 1 = CountOf(last.before, " ")

\* C26 witness: a placement that flipped two cells or more, beside a cell of
\* its own colour and an Empty cell that stayed as they were.
C26_Witness ==
    /\ PlacedOk
    /\ Cardinality(Flipped) >= 2
    /\ \E dir \in DirSet : RayHolds(size, last.before, last.co, dir, 1, PieceToChar(last.piece))
    /\ \E dir \in DirSet : RayHolds(size, data, last.co, dir, 1, " ")

\* ------------------------------------------ claims about the cost of place
\* The views the scan of direction dir pulls from its iterator on grid d:
\* the run it collects and the view that ends take_while, when walk returns
\* one.
ScanVisits(sz, d, co, dir, piece) ==
    Len(Turnnables(sz, d, co, dir, piece))
       + (IF IsSome(PositionWalk(sz, co, dir, Len(Turnnables(sz, d, co, dir, piece)) + 1))
          THEN 1 ELSE 0)

\* The grid the scan number i of the last placement saw: the grid before the
\* placement after the scans of the directions before it.
ScanGrid(i) ==
    SolveFrom(size, last.before, <<>>, last.co, last.piece, SubSeq(Dirs, 1, i - 1), 1).data

\* The cells of the ray of direction dir that the last operation changed.
FlippedOn(dir) ==
    {k \in 1..size : InGrid(size, RayCell(last.co, dir, k)) /\ Changed(RayCell(last.co, dir, k))}

\* C27: a place on an Empty cell runs 8 scans and ends; each scan pulls at
\* most size - 1 views before the edge of the board or a cell that does not
\* hold the opposite colour ends it, collects a run of at most size - 1 cells
\* and flips at most size - 2 of its ray, so the placement flips at most
\* 8 * (size - 2) cells; a place on an occupied cell runs no scan.
C27_ScansAreBounded ==
    /\ (last.op = "place" /\ ~Occupied(last.before, last.co)) =>
          /\ last.ok
          /\ Len(Dirs) = 8
          /\ \A i \in 1..Len(Dirs) : \A seen \in {ScanGrid(i)} :
                /\ ScanVisits(size, seen, last.co, Dirs[i], last.piece) <= size - 1
                /\ Len(Turnnables(size, seen, last.co, Dirs[i], last.piece)) <= size - 1
                /\ Turn(size, seen, Turnnables(size, seen, last.co, Dirs[i], last.piece),
                        Dirs[i], last.piece)
                      => Len(Turnnables(size, seen, last.co, Dirs[i], last.piece)) <= size - 2
                /\ Cardinality(FlippedOn(Dirs[i])) <= size - 2
          /\ Cardinality(Flipped) <= 8 * (size - 2)
    /\ (last.op = "place" /\ Occupied(last.before, last.co)) =>
          ~last.ok /\ data = last.before

\* C27 witness: a placement on the board of size 3 of which one scan pulled
\* size - 1 views and flipped size - 2 cells.
C27_Witness ==
    /\ last.op = "place" /\ last.ok /\ size = 3
    /\ \E i \in 1..Len(Dirs) :
          /\ ScanVisits(size, ScanGrid(i), last.co, Dirs[i], last.piece) = size - 1
          /\ Cardinality(FlippedOn(Dirs[i])) = size - 2

\* ------------------------------------------ claims about the stored cells
\* C28: in every state the grid is size x size and every cell holds one of
\* the characters ' ', 'B', 'R'; a cell that a place or a flip wrote holds 'B'
\* or 'R'; the piece of every cell reads without ParseError, as the cell that
\* encodes to the character stored, and the character of an occupied cell
\* decodes to its piece without a panic.
C28_CellsStayInAlphabet ==
    /\ DOMAIN data = 0..(size - 1)
    /\ \A r \in 0..(size - 1) : DOMAIN data[r] = 0..(size - 1)
    /\ \A co \in Cells :
          /\ At(data, co) \in {" ", "B", "R"}
          /\ PositionPiece(data, co) # "ParseError"
          /\ PositionPiece(data, co) \in Pieces \cup {"None"}
          /\ WrapToChar(PositionPiece(data, co)) = At(data, co)
          /\ Occupied(data, co) =>
                /\ CharToPiece(At(data, co)).kind = "Ok"
                /\ CharToPiece(At(data, co)).piece = PositionPiece(data, co)
    /\ (last.op \in {"place", "flip", "game_place"} /\ last.ok) =>
          /\ At(data, last.co) \in {"B", "R"}
          /\ \A co \in Cells : Changed(co) => At(data, co) \in {"B", "R"}

\* C28 witness: on the board of size 8, after a placement and a flip, a cell
\* written by place, a cell written by flip and an Empty cell are read.
C28_Witness ==
    /\ size = 8 /\ budget = MaxOps - 2
    /\ last.op = "flip" /\ last.ok
    /\ PositionPiece(data, last.co) = NotPiece(PositionPiece(last.before, last.co))
    /\ \E co \in Cells :
          /\ At(BoardNewData(size), co) = " "
          /\ Occupied(last.before, co) /\ Occupied(data, co) /\ co # last.co
    /\ \E co \in Cells : PositionPiece(data, co) = "None"

====
